---- MODULE Spec2Model ----
(***************************************************************************)
(* Model of bun-http-proxy.                                                *)
(*                                                                         *)
(*  - SpecServe : serve.ts, the MITM frontend: the servers map,            *)
(*    onConnectRequest and createServerForDomain, one step per await.      *)
(*  - SpecProxy : index.ts, the TCP CONNECT proxy: the socket handlers     *)
(*    open / data / close / error of Bun.listen and the handlers of the    *)
(*    target socket opened by Bun.connect.                                 *)
(*  - SpecBridge : index.ts, the two byte streams of an established tunnel. *)
(*  - SpecCert : certs/serverCert.ts and certs/rootCA.ts, the certificates  *)
(*    createCSR and signCSR build under the root CA of generateRootCA.      *)
(*                                                                         *)
(* JavaScript runs each handler to its next await without interruption,    *)
(* so every action below is the code between two awaits.                   *)
(***************************************************************************)
EXTENDS Integers, Sequences, FiniteSets, TLC

(***************************************************************************)
(* Bounds                                                                  *)
(***************************************************************************)
\* number of HTTP requests the MITM frontend receives
NumReq == 3
\* number of client connections the TCP proxy accepts
NumConns == 2
\* number of data chunks a client sends on one connection
MaxChunks == 2
\* number of target sockets Bun.connect is asked for, over all connections
MaxSock == 2
\* number of chunks a target sends
MaxTargetData == 1
\* tunnel at the level of bytes: bytes a side sends, size of the largest chunk,
\* size of a socket's send buffer
MaxBytes == 4
MaxChunkLen == 2
BufCap == 2
\* certificates: calls of createCSR, calls of signCSR, ticks of Date.now()
MaxCSR == 2
MaxCert == 2
MaxClock == 2
\* loadRootCA: starts of the process, changes of the CA files from outside
MaxRuns == 3
MaxTampers == 1

Requests == 1..NumReq
Domains == {"a.test", "b.test"}
\* request.headers.get("host") of a request without Host header
NoHost == [name |-> "", port |-> ""]
\* the Host headers requests carry: "<name>" or "<name>:<port>"
Hosts == { [name |-> "a.test", port |-> ""],
           [name |-> "a.test", port |-> "8080"],
           [name |-> "b.test", port |-> ""] }
\* serve.ts:120  new URL(`http://${host}`).hostname
hostname(host) == host.name
\* servers.get(domain) of a domain that is not in the map
NoServer == 0

VARIABLES
    \* ---- serve.ts
    servers,      \* serve.ts:5   domain -> server handle (NoServer if absent)
    listeners,    \* every Bun.serve listener created so far: handle -> domain
    reqPc,        \* where each request's onConnectRequest is suspended
    reqDomain,    \* the domain of each request ("" before it is parsed)
    reqServer,    \* the server each request was resolved to
    reqResp,      \* HTTP status returned for each request (0: none yet)
    csrCalls,     \* domain -> number of createCSR calls
    signCalls,    \* domain -> number of signCSRWithFullChain calls
    reqAborted,   \* the request's client went away while its creation was in flight
    reqNoHost,    \* serve.ts:116  request.headers.get("host") gave nothing
    \* ---- index.ts
    cli,          \* state of each client socket
    socketMap,    \* index.ts:15  client socket -> has a metadata entry
    metaTarget,   \* index.ts:17  the targetSocket field of the socket's metadata
    clientOut,    \* what each client socket accepted from clientSocket.write
    firstChunk,   \* the first chunk each client socket delivered to the data handler
    lastChunk,    \* the latest chunk each client socket delivered to the data handler
    nData,        \* number of chunks each client socket delivered to the data handler
    tgt,          \* state of each target socket ("connecting": Bun.connect in flight)
    tgtConn,      \* the client connection whose data handler asked for the socket
    tgtDest,      \* hostname and port given to Bun.connect
    tgtIn,        \* what each target socket accepted from targetSocket.write
    tgtSent,      \* number of chunks each target socket has sent
    \* ---- index.ts, one established tunnel at the level of bytes
    bSent,        \* per direction: number of bytes the source side delivered to its data handler
    bRecv,        \* per direction: the bytes the destination socket accepted, in order
    bRoom,        \* per direction: free space of the destination socket's send buffer
    bPressure,    \* per direction: a write was cut short and drain has not fired since
    bWrites,      \* per direction: number of write calls made while bPressure held
    \* ---- certs/serverCert.ts, certs/rootCA.ts
    clock,        \* Date.now()
    keys,         \* number of key pairs crypto.subtle.generateKey has made
    rootCA,       \* the RootCAResult the certificates are signed with
    csrs,         \* the CSRResult of each createCSR call, with the domain it was called for
    certs,        \* the SignedCertificateResult of each signCSR call, with the CSR it was given
    \* ---- serve.ts, loadRootCA and the files ./certs/rootCA.crt, ./certs/rootCA.key
    certFile,     \* ./certs/rootCA.crt: whether it exists, and its text
    keyFile,      \* ./certs/rootCA.key
    loadPc,       \* where the process is: "off", or a position of loadRootCA, or "ready"
    fresh,        \* serve.ts:62  the root CA loadRootCA generated and has yet to return
    loadWrites,   \* number of file writes the running process has made
    runs,         \* number of times the process was started
    tampers,      \* number of times a file was changed from outside the process
    \* ---- the target test server (unnamed/part_000)
    running,      \* the server process has not exited
    exiting,      \* part_000:61  process.exit is scheduled
    request,      \* the request the handler was called with, NoRequest between requests
    response,     \* what the client of that request receives
    outbound      \* part_000:139  the URL the handler called fetch with, "" if it did not

serveVars == <<servers, listeners, reqPc, reqDomain, reqServer, reqResp, csrCalls, signCalls,
               reqAborted, reqNoHost>>
proxyVars == <<cli, socketMap, metaTarget, clientOut, firstChunk, lastChunk, nData,
               tgt, tgtConn, tgtDest, tgtIn, tgtSent>>
bridgeVars == <<bSent, bRecv, bRoom, bPressure, bWrites>>
certVars == <<clock, keys, rootCA, csrs, certs>>
loadVars == <<certFile, keyFile, loadPc, fresh, loadWrites, runs, tampers>>
targetVars == <<running, exiting, request, response, outbound>>
vars == <<serveVars, proxyVars, bridgeVars, certVars, loadVars, targetVars>>
\* what the actions of serve.ts, of index.ts, of the tunnel, of the
\* certificate functions and of loadRootCA leave alone
notServe == <<proxyVars, bridgeVars, certVars, loadVars, targetVars>>
notProxy == <<serveVars, bridgeVars, certVars, loadVars, targetVars>>
notBridge == <<serveVars, proxyVars, certVars, loadVars, targetVars>>
notCert == <<serveVars, proxyVars, bridgeVars, loadVars, targetVars>>
notLoad == <<serveVars, proxyVars, bridgeVars, targetVars>>
notTarget == <<serveVars, proxyVars, bridgeVars, certVars, loadVars>>

(***************************************************************************)
(* serve.ts                                                                *)
(***************************************************************************)

\* onConnectRequest without the servers.get lookup: every request creates
onConnectRequestUncached(r, host) ==
    /\ reqPc[r] = "new"
    /\ IF host = NoHost
       THEN /\ reqResp' = [reqResp EXCEPT ![r] = 400]
            /\ reqPc' = [reqPc EXCEPT ![r] = "done"]
            /\ UNCHANGED <<reqDomain, csrCalls>>
       ELSE /\ reqDomain' = [reqDomain EXCEPT ![r] = hostname(host)]
            /\ csrCalls' = [csrCalls EXCEPT ![hostname(host)] = @ + 1]
            /\ reqPc' = [reqPc EXCEPT ![r] = "createCSR"]
            /\ UNCHANGED reqResp
    /\ reqNoHost' = [reqNoHost EXCEPT ![r] = (host = NoHost)]
    /\ UNCHANGED <<servers, listeners, reqServer, signCalls, reqAborted, notServe>>

\* onConnectRequest without the Host check of serve.ts:117-119: a request
\* without Host header goes on to the lookup and the creation like one for
\* the domain a.test
onConnectRequestNoHostCheck(r, host) ==
    /\ reqPc[r] = "new"
    /\ LET domain == IF host = NoHost THEN "a.test" ELSE hostname(host)
       IN /\ reqDomain' = [reqDomain EXCEPT ![r] = domain]
          /\ IF servers[domain] # NoServer
             THEN /\ reqServer' = [reqServer EXCEPT ![r] = servers[domain]]
                  /\ reqPc' = [reqPc EXCEPT ![r] = "fetch"]
                  /\ UNCHANGED csrCalls
             ELSE /\ csrCalls' = [csrCalls EXCEPT ![domain] = @ + 1]
                  /\ reqPc' = [reqPc EXCEPT ![r] = "createCSR"]
                  /\ UNCHANGED reqServer
    /\ reqNoHost' = [reqNoHost EXCEPT ![r] = (host = NoHost)]
    /\ UNCHANGED <<servers, listeners, reqResp, signCalls, reqAborted, notServe>>

\* serve.ts:115-122, up to the first await: the Host check, servers.get and,
\* on a miss, the call of createServerForDomain, which runs to the await of
\* createCSR (serve.ts:78).
onConnectRequest(r, host) ==
    /\ reqPc[r] = "new"
    /\ IF host = NoHost
       THEN /\ reqResp' = [reqResp EXCEPT ![r] = 400]
            /\ reqPc' = [reqPc EXCEPT ![r] = "done"]
            /\ UNCHANGED <<reqDomain, reqServer, csrCalls>>
       ELSE /\ reqDomain' = [reqDomain EXCEPT ![r] = hostname(host)]
            /\ IF servers[hostname(host)] # NoServer
               THEN /\ reqServer' = [reqServer EXCEPT ![r] = servers[hostname(host)]]
                    /\ reqPc' = [reqPc EXCEPT ![r] = "fetch"]
                    /\ UNCHANGED csrCalls
               ELSE /\ csrCalls' = [csrCalls EXCEPT ![hostname(host)] = @ + 1]
                    /\ reqPc' = [reqPc EXCEPT ![r] = "createCSR"]
                    /\ UNCHANGED reqServer
            /\ UNCHANGED reqResp
    /\ reqNoHost' = [reqNoHost EXCEPT ![r] = (host = NoHost)]
    /\ UNCHANGED <<servers, listeners, signCalls, reqAborted, notServe>>

\* serve.ts:78-85: createCSR resolved, signCSRWithFullChain is called and awaited.
createCSRResolved(r) ==
    /\ reqPc[r] = "createCSR"
    /\ signCalls' = [signCalls EXCEPT ![reqDomain[r]] = @ + 1]
    /\ reqPc' = [reqPc EXCEPT ![r] = "sign"]
    /\ UNCHANGED <<servers, listeners, reqDomain, reqServer, reqResp, csrCalls, reqAborted, reqNoHost,
                   notServe>>

\* createServerRejected that leaves the rejection in the servers map
createServerRejectedCached(r) ==
    /\ reqPc[r] \in {"createCSR", "sign"}
    /\ reqResp' = [reqResp EXCEPT ![r] = 500]
    /\ reqPc' = [reqPc EXCEPT ![r] = "done"]
    /\ servers' = [servers EXCEPT ![reqDomain[r]] = -1]
    /\ UNCHANGED <<listeners, reqDomain, reqServer, csrCalls, signCalls, reqAborted, reqNoHost, notServe>>

\* serve.ts:78-85, 127-131: createCSR, signCSRWithFullChain (or Bun.serve,
\* serve.ts:88) throws; nothing catches it in createServerForDomain or
\* onConnectRequest, the fetch handler of Bun.serve rejects and Bun answers 500.
createServerRejected(r) ==
    /\ reqPc[r] \in {"createCSR", "sign"}
    /\ reqResp' = [reqResp EXCEPT ![r] = 500]
    /\ reqPc' = [reqPc EXCEPT ![r] = "done"]
    /\ UNCHANGED <<servers, listeners, reqDomain, reqServer, csrCalls, signCalls, reqAborted, reqNoHost,
                   notServe>>

\* createServerForDomain without servers.set (serve.ts:108)
createServerForDomainUnstored(r) ==
    /\ reqPc[r] = "sign"
    /\ listeners' = Append(listeners, reqDomain[r])
    /\ reqServer' = [reqServer EXCEPT ![r] = Len(listeners) + 1]
    /\ reqPc' = [reqPc EXCEPT ![r] = "fetch"]
    /\ UNCHANGED <<servers, reqDomain, reqResp, csrCalls, signCalls, reqAborted, reqNoHost, notServe>>

\* serve.ts:88-112 and the rest of line 121: signCSRWithFullChain resolved,
\* Bun.serve creates the listener, servers.set stores it, and the caller's
\* await yields it; server.fetch is then called and awaited (serve.ts:122).
createServerForDomain(r) ==
    /\ reqPc[r] = "sign"
    /\ LET server == Len(listeners) + 1
           domain == reqDomain[r]
       IN /\ listeners' = Append(listeners, domain)
          /\ servers' = [servers EXCEPT ![domain] = server]
          /\ reqServer' = [reqServer EXCEPT ![r] = server]
    /\ reqPc' = [reqPc EXCEPT ![r] = "fetch"]
    /\ UNCHANGED <<reqDomain, reqResp, csrCalls, signCalls, reqAborted, reqNoHost, notServe>>

\* serve.ts:90-101, 122: the fetch handler of the domain's server answers 200
\* (new Response(null, {status: 200}) or the default status of new Response).
serverFetch(r) ==
    /\ reqPc[r] = "fetch"
    /\ reqResp' = [reqResp EXCEPT ![r] = 200]
    /\ reqPc' = [reqPc EXCEPT ![r] = "done"]
    /\ UNCHANGED <<servers, listeners, reqDomain, reqServer, csrCalls, signCalls, reqAborted, reqNoHost,
                   notServe>>

\* requestAborted that also cancels the creation the request started
requestAbortedCancels(r) ==
    /\ reqPc[r] \in {"createCSR", "sign"}
    /\ ~reqAborted[r]
    /\ reqAborted' = [reqAborted EXCEPT ![r] = TRUE]
    /\ reqPc' = [reqPc EXCEPT ![r] = "done"]
    /\ UNCHANGED <<reqNoHost, servers, listeners, reqDomain, reqServer, reqResp, csrCalls, signCalls,
                   notServe>>

\* serve.ts:115-131: the client of a request disconnects while the request
\* awaits createServerForDomain. Neither onConnectRequest nor
\* createServerForDomain reads request.signal or registers an abort handler,
\* so no code runs: the pending promises stay as they are and the response
\* the handler returns later has no client to go to.
requestAborted(r) ==
    /\ reqPc[r] \in {"createCSR", "sign"}
    /\ ~reqAborted[r]
    /\ reqAborted' = [reqAborted EXCEPT ![r] = TRUE]
    /\ UNCHANGED <<reqNoHost, servers, listeners, reqPc, reqDomain, reqServer, reqResp, csrCalls, signCalls,
                   notServe>>

NextServe ==
    \/ \E r \in Requests, host \in Hosts \cup {NoHost} : onConnectRequest(r, host)
    \/ \E r \in Requests : createCSRResolved(r)
    \/ \E r \in Requests : createServerRejected(r)
    \/ \E r \in Requests : createServerForDomain(r)
    \/ \E r \in Requests : serverFetch(r)
    \/ \E r \in Requests : requestAborted(r)

\* requests of domain d whose createServerForDomain is in flight
InFlight(d) == {r \in Requests : reqDomain[r] = d /\ reqPc[r] \in {"createCSR", "sign"}}
\* listeners created for domain d
ListenersOf(d) == {s \in 1..Len(listeners) : listeners[s] = d}
(***************************************************************************)
(* index.ts                                                                *)
(***************************************************************************)
Conns == 1..NumConns
\* the two directions of a tunnel
Directions == {"toTarget", "toClient"}
Socks == 1..MaxSock
NoSock == 0
NoChunk == [verb |-> "", host |-> "", port |-> << >>, proto |-> ""]

\* index.ts:98, 54, 81/104
Status200 == "HTTP/1.1 200 Connection Established\r\n\r\n"
Status400 == "HTTP/1.1 400 Bad Request\r\n\r\n"
Status502 == "HTTP/1.1 502 Bad Gateway\r\n\r\n"

\* A chunk is the text "<verb> <host>:<port> <proto>..."; port is its characters.
Chunks ==
    { [verb |-> "CONNECT", host |-> "h1", port |-> <<"8", "0">>, proto |-> "HTTP/1.1"],
      [verb |-> "CONNECT", host |-> "h2", port |-> <<"4", "4", "3">>, proto |-> "HTTP/1.0"],
      [verb |-> "GET", host |-> "h1", port |-> <<"8", "0">>, proto |-> "HTTP/1.1"] }
\* what a target sends
TargetChunks == {"origin-bytes"}

Digits == {"0", "1", "2", "3", "4", "5", "6", "7", "8", "9"}
DigitValue(ch) ==
    CASE ch = "0" -> 0 [] ch = "1" -> 1 [] ch = "2" -> 2 [] ch = "3" -> 3 [] ch = "4" -> 4
      [] ch = "5" -> 5 [] ch = "6" -> 6 [] ch = "7" -> 7 [] ch = "8" -> 8 [] ch = "9" -> 9

\* index.ts:48-50  /^CONNECT ([^:]+):(\d+) HTTP\/1\.[01]/
connectMatch(chunk) ==
    /\ chunk.verb = "CONNECT"
    /\ chunk.host # ""
    /\ Len(chunk.port) > 0
    /\ \A i \in 1..Len(chunk.port) : chunk.port[i] \in Digits
    /\ chunk.proto \in {"HTTP/1.0", "HTTP/1.1"}

\* index.ts:60  parseInt(connectMatch[2], 10)
RECURSIVE parseInt(_)
parseInt(digits) ==
    IF digits = << >> THEN 0
    ELSE 10 * parseInt(SubSeq(digits, 1, Len(digits) - 1)) + DigitValue(digits[Len(digits)])

(***************************************************************************)
(* certs/rootCA.ts, certs/serverCert.ts                                    *)
(*                                                                         *)
(* A certificate is the record of the fields the code sets; a key pair is  *)
(* its number in the order of generation, a signature the key that made    *)
(* it, a DER value the structure it encodes.                               *)
(***************************************************************************)
\* serve.ts:62, certs.test.ts:57
CommonNames == {"CodikyoProxyRoot", "TestRootCA"}
\* object identifiers
OidCommonName == "2.5.4.3"
OidExtensionRequest == "1.2.840.113549.1.9.14"
OidSubjectAltName == "2.5.29.17"
OidBasicConstraints == "2.5.29.19"
OidKeyUsage == "2.5.29.15"
OidSubjectKeyId == "2.5.29.14"
OidAuthorityKeyId == "2.5.29.35"

\* new AttributeTypeAndValue({type: "2.5.4.3", value: Utf8String(cn)})
commonNameOf(cn) == [type |-> OidCommonName, value |-> cn]
\* subjectPublicKeyInfo.importKey(publicKey)
importKey(key) == [algorithm |-> "ECDSA P-256", publicKey |-> key]
\* new Extension({extnID, critical, extnValue})
Extension(id, crit, val) == [extnID |-> id, critical |-> crit, extnValue |-> val]
\* a GeneralName dNSName: Primitive with tag [2] and the name's bytes
dNSName(name) == [tagNumber |-> 2, valueHex |-> name]

\* the variable rootCA before generateRootCA has returned
NoRootCA == [privateKey |-> 0]
\* a file that does not exist, a file with the given text
NoFile == [exists |-> FALSE, text |-> << >>]
File(text) == [exists |-> TRUE, text |-> text]

(* Texts and buffers.  A buffer is a sequence of bytes (numbers).  A text   *)
(* is a sequence of symbols: an armour line, a line break, a base64 symbol  *)
(* (one per byte of the buffer it encodes) or any other character.         *)
Symbol(tag, label, val) == [tag |-> tag, label |-> label, val |-> val]
LineBreak == Symbol("\n", "", 0)
\* a character that is neither base64 nor white space
Junk == Symbol("?", "", 0)
\* rootCA.ts:12-21, serverCert.ts:19-28: btoa of the bytes
arrayBufferToBase64(buffer) == [i \in 1..Len(buffer) |-> Symbol("b64", "", buffer[i])]
\* rootCA.ts:25  b64.replace(/(.{64})/g, "$1\n")
RECURSIVE chunked(_)
chunked(b64) ==
    IF Len(b64) < 64 THEN b64
    ELSE SubSeq(b64, 1, 64) \o <<LineBreak>> \o chunked(SubSeq(b64, 65, Len(b64)))
\* rootCA.ts:23-27, serverCert.ts:30-34
toPEM(buffer, label) ==
    <<Symbol("-----BEGIN", label, 0), LineBreak>>
        \o chunked(arrayBufferToBase64(buffer))
        \o <<LineBreak, Symbol("-----END", label, 0), LineBreak>>

\* text.replace(re, "") without the g flag: the first match is removed
removeFirst(text, tag) ==
    LET hits == {i \in 1..Len(text) : text[i].tag = tag}
    IN IF hits = {} THEN text
       ELSE LET first == CHOOSE i \in hits : \A j \in hits : i <= j
            IN SubSeq(text, 1, first - 1) \o SubSeq(text, first + 1, Len(text))
\* serve.ts:9-12: the armour lines and all white space are removed
stripPEM(pem) ==
    SelectSeq(removeFirst(removeFirst(pem, "-----BEGIN"), "-----END"),
              LAMBDA sym : sym.tag # "\n")
\* pemToDer of a text atob rejects (InvalidCharacterError)
atobThrows(pem) == \E i \in 1..Len(stripPEM(pem)) : stripPEM(pem)[i].tag # "b64"
\* pemToDer that leaves the END line in the text
pemToDerKeepEnd(pem) ==
    [i \in 1..Len(SelectSeq(removeFirst(pem, "-----BEGIN"), LAMBDA sym : sym.tag # "\n")) |->
        SelectSeq(removeFirst(pem, "-----BEGIN"), LAMBDA sym : sym.tag # "\n")[i].val]
\* serve.ts:7-21 (certs.test.ts:11-23), for a text atob accepts
pemToDer(pem) == [i \in 1..Len(stripPEM(pem)) |-> stripPEM(pem)[i].val]

\* The DER of a root certificate: its type, the fields generateRootCA chooses
\* (common name, key, serial, years of validity, subject key identifier
\* present), then as many bytes as make its size (70 bytes with the key
\* identifiers, 64 without).
\* The DER of a leaf certificate likewise: type, subject, key, serial, days
\* of validity, signing key, issuer, and bytes up to 66.
CommonNameSeq == <<"CodikyoProxyRoot", "TestRootCA", "a.test", "b.test">>
commonNameIndex(cn) == CHOOSE i \in 1..Len(CommonNameSeq) : CommonNameSeq[i] = cn
\* the certificate's basicConstraints say cA = true
isCA(certificate) ==
    \E i \in 1..Len(certificate.extensions) :
        /\ certificate.extensions[i].extnID = OidBasicConstraints
        /\ certificate.extensions[i].extnValue.cA
hasSki(certificate) ==
    \E i \in 1..Len(certificate.extensions) : certificate.extensions[i].extnID = OidSubjectKeyId
\* rootCA.ts:120-121  certificate.toSchema(true).toBER(false)
toBER(certificate) ==
    IF isCA(certificate)
    THEN << 1, commonNameIndex(certificate.subject[1].value),
            certificate.subjectPublicKeyInfo.publicKey, certificate.serialNumber,
            certificate.notAfter[2], IF hasSki(certificate) THEN 1 ELSE 0 >>
         \o [i \in 1..(IF hasSki(certificate) THEN 64 ELSE 58) |-> 0]
    ELSE << 3, commonNameIndex(certificate.subject[1].value),
            certificate.subjectPublicKeyInfo.publicKey, certificate.serialNumber,
            certificate.notAfter[2], certificate.signedBy,
            commonNameIndex(certificate.issuer[1].value) >>
         \o [i \in 1..59 |-> 0]
\* rootCA.ts:124  crypto.subtle.exportKey("pkcs8", privateKey)
exportKey(privateKey) == <<2, privateKey, 0, 0, 0, 0>>

\* rootCertificate with basicConstraints that are not critical and say cA = false
rootCertificateNoCA(commonName, validityYears, key, now, ski) ==
    [ version |-> 2,
      serialNumber |-> now,
      issuer |-> <<commonNameOf(commonName)>>,
      subject |-> <<commonNameOf(commonName)>>,
      notBefore |-> now,
      notAfter |-> <<now, validityYears, "years">>,
      subjectPublicKeyInfo |-> importKey(key),
      extensions |-> << Extension(OidBasicConstraints, FALSE, [cA |-> FALSE]),
                        Extension(OidKeyUsage, TRUE, "86") >>,
      signedBy |-> key ]

\* rootCA.ts:60-117: the certificate generateRootCA builds and signs
rootCertificate(commonName, validityYears, key, now, ski) ==
        [ version |-> 2,
          serialNumber |-> now,
          issuer |-> <<commonNameOf(commonName)>>,
          subject |-> <<commonNameOf(commonName)>>,
          notBefore |-> now,
          notAfter |-> <<now, validityYears, "years">>,
          subjectPublicKeyInfo |-> importKey(key),
          extensions |->
              << Extension(OidBasicConstraints, TRUE, [cA |-> TRUE, pathLenConstraint |-> 0]),
                 Extension(OidKeyUsage, TRUE, "86") >>
              \o (IF ski
                  THEN << Extension(OidSubjectKeyId, FALSE, [sha1 |-> key]),
                          Extension(OidAuthorityKeyId, FALSE, <<[tagNumber |-> 0, sha1 |-> key]>>) >>
                  ELSE << >>),
          signedBy |-> key ]

\* rootCA.ts:33-135; ski: exportKey and digest of lines 102-103 did not throw
generateRootCA(commonName, validityYears, key, now, ski) ==
    [ privateKey |-> key,
      certificate |-> rootCertificate(commonName, validityYears, key, now, ski),
      certificatePEM |->
          toPEM(toBER(rootCertificate(commonName, validityYears, key, now, ski)), "CERTIFICATE"),
      privateKeyPEM |-> toPEM(exportKey(key), "PRIVATE KEY") ]

\* Certificate.fromBER rejects the buffer (serve.ts:39)
fromBERThrows(der) ==
    ~ /\ Len(der) \in {64, 70}
      /\ der[1] = 1
      /\ der[2] \in 1..Len(CommonNameSeq)
      /\ der[5] > 0
      /\ der[6] = (IF Len(der) = 70 THEN 1 ELSE 0)
      /\ \A i \in 7..Len(der) : der[i] = 0
\* serve.ts:39, certs.test.ts:162  Certificate.fromBER(certDER), for a buffer it accepts
fromBER(der) == rootCertificate(CommonNameSeq[der[2]], der[5], der[3], der[4], der[6] = 1)
\* crypto.subtle.importKey("pkcs8", keyDER, ...) rejects the buffer (serve.ts:43-49)
importKeyThrows(der) == Len(der) # 6 \/ der # <<2, der[2], 0, 0, 0, 0>>
\* serve.ts:43-49, for a buffer it accepts
importPkcs8(der) == der[2]

\* serverCert.ts:39-85
createCSR(domain, key) ==
    [ privateKey |-> key,
      publicKey |-> key,
      privateKeyPEM |-> toPEM(exportKey(key), "PRIVATE KEY"),
      csr |->
        [ version |-> 0,
          subject |-> <<commonNameOf(domain)>>,
          subjectPublicKeyInfo |-> importKey(key),
          attributes |->
              << [ type |-> OidExtensionRequest,
                   values |-> << << Extension(OidSubjectAltName, FALSE, <<dNSName(domain)>>) >> >> ] >>,
          signedBy |-> key ] ]

\* serverCert.ts:97-116: the certificate signCSR builds and signs
leafCertificate(ca, csr, validityDays, now) ==
    [ version |-> 2,
      serialNumber |-> now,
      issuer |-> ca.certificate.subject,
      subject |-> csr.subject,
      notBefore |-> now,
      notAfter |-> <<now, validityDays, "days">>,
      subjectPublicKeyInfo |-> csr.subjectPublicKeyInfo,
      extensions |-> << Extension(OidBasicConstraints, TRUE, [cA |-> FALSE]) >>,
      signedBy |-> ca.privateKey ]
\* serverCert.ts:118-121: the result of signCSR for the certificate it built
SignedCertificateResult(cert) ==
    [ certificatePEM |-> toPEM(toBER(cert), "CERTIFICATE"),
      certificateRaw |-> toBER(cert),
      certificate |-> cert ]

\* signCSR with the certificate issued under the name the CSR asks for
signCSRSelfIssued(ca, csr, validityDays, now) ==
    SignedCertificateResult([leafCertificate(ca, csr, validityDays, now) EXCEPT !.issuer = csr.subject])

\* signCSR with the certificate carrying the key of the CA
signCSRCaKey(ca, csr, validityDays, now) ==
    SignedCertificateResult([leafCertificate(ca, csr, validityDays, now) EXCEPT
                                !.subjectPublicKeyInfo = ca.certificate.subjectPublicKeyInfo])

\* serverCert.ts:90-122
signCSR(ca, csr, validityDays, now) ==
    SignedCertificateResult(leafCertificate(ca, csr, validityDays, now))

\* signCSRWithFullChain with the root first
signCSRWithFullChainRootFirst(ca, csr, privateKeyPEM, validityDays, now) ==
    [ certificatePEM |-> signCSR(ca, csr, validityDays, now).certificatePEM,
      certificate |-> signCSR(ca, csr, validityDays, now).certificate,
      privateKeyPEM |-> privateKeyPEM,
      fullChainPEM |-> ca.certificatePEM \o <<LineBreak>>
                         \o signCSR(ca, csr, validityDays, now).certificatePEM ]

\* signCSRWithFullChain (imported at serve.ts:2 and certs.test.ts:6; its
\* definition is not in serverCert.ts): the certificate of signCSR and the
\* chain, the leaf's PEM, a line break, the root's PEM, as the chain is built
\* in part_003:42-44
signCSRWithFullChain(ca, csr, privateKeyPEM, validityDays, now) ==
    [ certificatePEM |-> signCSR(ca, csr, validityDays, now).certificatePEM,
      certificate |-> signCSR(ca, csr, validityDays, now).certificate,
      privateKeyPEM |-> privateKeyPEM,
      fullChainPEM |-> signCSR(ca, csr, validityDays, now).certificatePEM
                         \o <<LineBreak>> \o ca.certificatePEM ]

\* certs.test.ts:25-51
extractSANs(cert) ==
    LET ids == {i \in 1..Len(cert.extensions) : cert.extensions[i].extnID = OidSubjectAltName}
    IN IF ids = {} THEN << >>
       ELSE LET sanSequence == cert.extensions[CHOOSE i \in ids : \A j \in ids : i <= j].extnValue
            IN [k \in 1..Len(SelectSeq(sanSequence, LAMBDA item : item.tagNumber = 2)) |->
                   SelectSeq(sanSequence, LAMBDA item : item.tagNumber = 2)[k].valueHex]
\* certs.test.ts:92  `*.${domain}`
wildcard(domain) ==
    CASE domain = "a.test" -> "*.a.test"
      [] domain = "b.test" -> "*.b.test"
\* certs.test.ts:122-130  name.typesAndValues[0]?.value.valueBlock.value
CN(name) == name[1].value

(***************************************************************************)
(* unnamed/part_000: the target test server                                *)
(***************************************************************************)
Methods == {"GET", "POST", "PUT", "HEAD"}
\* the text between two "/" of a pathname
Segments ==
    {"", "exit", "local", "stream", "favicon.ico", "delay", "status", "invalid",
     "example.com", "0", "99", "200", "201", "404", "500", "700"}
MaxSegments == 2
\* a pathname is "/" followed by its segments joined with "/": "/" is <<"">>,
\* "/status/404" is <<"status", "404">>, "/status/" is <<"status", "">>
Pathnames == UNION {[1..n -> Segments] : n \in 1..MaxSegments}
\* the characters of each segment
Characters(segment) ==
    CASE segment = "" -> << >>
      [] segment = "exit" -> <<"e", "x", "i", "t">>
      [] segment = "local" -> <<"l", "o", "c", "a", "l">>
      [] segment = "stream" -> <<"s", "t", "r", "e", "a", "m">>
      [] segment = "favicon.ico" -> <<"f", "a", "v", "i", "c", "o", "n", ".", "i", "c", "o">>
      [] segment = "delay" -> <<"d", "e", "l", "a", "y">>
      [] segment = "status" -> <<"s", "t", "a", "t", "u", "s">>
      [] segment = "invalid" -> <<"i", "n", "v", "a", "l", "i", "d">>
      [] segment = "example.com" -> <<"e", "x", "a", "m", "p", "l", "e", ".", "c", "o", "m">>
      [] segment = "0" -> <<"0">>
      [] segment = "99" -> <<"9", "9">>
      [] segment = "200" -> <<"2", "0", "0">>
      [] segment = "201" -> <<"2", "0", "1">>
      [] segment = "404" -> <<"4", "0", "4">>
      [] segment = "500" -> <<"5", "0", "0">>
      [] segment = "700" -> <<"7", "0", "0">>
\* the segment is a decimal numeral
isNumeral(segment) ==
    /\ Characters(segment) # << >>
    /\ \A i \in 1..Len(Characters(segment)) : Characters(segment)[i] \in Digits
\* part_000:92,102  Number(string): 0 for the empty string, the value of a
\* decimal numeral, NaN for the other segments
Number(segment) ==
    IF segment = "" THEN [nan |-> FALSE, value |-> 0]
    ELSE IF isNumeral(segment) THEN [nan |-> FALSE, value |-> parseInt(Characters(segment))]
    ELSE [nan |-> TRUE, value |-> 0]
\* part_000:92,102  number || fallback: NaN and 0 are falsy
orElse(number, fallback) ==
    IF number.nan \/ number.value = 0 THEN fallback ELSE number.value
\* part_000:66,91,101  url.pathname.startsWith("/" + segment + "/")
startsWith(pathname, segment) == Len(pathname) >= 2 /\ pathname[1] = segment
\* part_000:92,102  url.pathname.split("/").pop()
pop(pathname) == pathname[Len(pathname)]
\* part_000:118  domain.match(/\./g)
matchesDot(segment) == \E i \in 1..Len(Characters(segment)) : Characters(segment)[i] = "."

NoRequest == [method |-> "", pathname |-> << >>]
NoResponse == [status |-> 0, body |-> << >>, thrown |-> FALSE]
\* new Response(body, { status }): a RangeError unless the status is 101 or
\* in 200..599; the status is 200 when none is given
Response(body, status) ==
    IF status = 101 \/ status \in 200..599
    THEN [status |-> status, body |-> body, thrown |-> FALSE]
    ELSE [status |-> 0, body |-> <<"RangeError">>, thrown |-> TRUE]
\* what a call of the handler does: the response it returns (or that it
\* throws), and the URL it called fetch with ("" if it did not)
Outcome(result, url) == [result |-> result, outbound |-> url]
\* what fetch(remoteRequest) settles with: a response of the remote server,
\* or a rejection
Remotes == {"200", "404", "rejected"}
\* part_000:124-194  the remote request is fetched; a rejection is caught and
\* answered 500
forward(domain, remote) ==
    Outcome(IF remote = "rejected"
            THEN Response(<<"e.message">>, 500)
            ELSE Response(<<"remote body">>, parseInt(Characters(remote))),
            domain)
\* part_000:118  the proxy pattern check without the test for a dot
proxyPatternNoCheck(pathname, remote) == forward(pathname[1], remote)
\* part_000:110-123  the first segment is the domain; without a dot in it the
\* request is not a proxy request
proxyPattern(pathname, remote) ==
    IF ~matchesDot(pathname[1])
    THEN Outcome(Response(<<"Not a proxy request", ": ", "${url.href}",
                            ".\nUse /domain.com/path/to/file">>, 200), "")
    ELSE forward(pathname[1], remote)
\* part_000:101-108
statusRoute(pathname) ==
    LET status == orElse(Number(pop(pathname)), 200)
    IN Response(<<"Returning with status ", "${status}">>, status)
\* part_000:20-199  the handler
handlerOutcome(method, pathname, remote) ==
    IF pathname = <<"">> THEN Outcome(Response(<<"routes">>, 200), "")
    ELSE IF pathname = <<"exit">> THEN Outcome(Response(<<"closing proxy">>, 200), "")
    ELSE IF startsWith(pathname, "local") THEN Outcome(Response(<<"Hallo Welt.">>, 200), "")
    ELSE IF pathname = <<"stream">> THEN Outcome(Response(<<"ReadableStream">>, 200), "")
    ELSE IF pathname = <<"favicon.ico">> THEN Outcome(Response(<< >>, 404), "")
    ELSE IF startsWith(pathname, "delay")
         THEN Outcome(Response(<<"Returning with ", "${delay}", "ms delay">>, 200), "")
    ELSE IF startsWith(pathname, "status") THEN Outcome(statusRoute(pathname), "")
    ELSE proxyPattern(pathname, remote)
\* Bun.serve (part_000:215-222): a handler that throws is answered 500
served(result) ==
    IF result.thrown THEN [status |-> 500, body |-> <<"error">>, thrown |-> TRUE] ELSE result

\* serve.ts:5 (servers = new Map()), index.ts:15-18 (socketMap = new WeakMap()):
\* no request, no connection, no socket, no key and no certificate yet
Init ==
    /\ servers = [d \in Domains |-> NoServer]
    /\ listeners = << >>
    /\ reqPc = [r \in Requests |-> "new"]
    /\ reqDomain = [r \in Requests |-> ""]
    /\ reqServer = [r \in Requests |-> NoServer]
    /\ reqResp = [r \in Requests |-> 0]
    /\ csrCalls = [d \in Domains |-> 0]
    /\ signCalls = [d \in Domains |-> 0]
    /\ reqAborted = [r \in Requests |-> FALSE]
    /\ reqNoHost = [r \in Requests |-> FALSE]
    /\ cli = [c \in Conns |-> "none"]
    /\ socketMap = [c \in Conns |-> FALSE]
    /\ metaTarget = [c \in Conns |-> NoSock]
    /\ clientOut = [c \in Conns |-> << >>]
    /\ firstChunk = [c \in Conns |-> NoChunk]
    /\ lastChunk = [c \in Conns |-> NoChunk]
    /\ nData = [c \in Conns |-> 0]
    /\ tgt = [t \in Socks |-> "none"]
    /\ tgtConn = [t \in Socks |-> 0]
    /\ tgtDest = [t \in Socks |-> <<"", 0>>]
    /\ tgtIn = [t \in Socks |-> << >>]
    /\ tgtSent = [t \in Socks |-> 0]
    /\ bSent = [d \in Directions |-> 0]
    /\ bRecv = [d \in Directions |-> << >>]
    /\ bRoom = [d \in Directions |-> BufCap]
    /\ bPressure = [d \in Directions |-> FALSE]
    /\ bWrites = [d \in Directions |-> 0]
    /\ clock = 0
    /\ keys = 0
    /\ rootCA = NoRootCA
    /\ csrs = << >>
    /\ certs = << >>
    /\ certFile = NoFile
    /\ keyFile = NoFile
    /\ loadPc = "off"
    /\ fresh = NoRootCA
    /\ loadWrites = 0
    /\ runs = 0
    /\ tampers = 0
    /\ running = TRUE
    /\ exiting = FALSE
    /\ request = NoRequest
    /\ response = NoResponse
    /\ outbound = ""

\* clientSocket.write(text): a socket that is no longer open accepts nothing
clientWrite(out, c, text) ==
    IF cli[c] = "open" THEN [out EXCEPT ![c] = Append(@, text)] ELSE out
\* clientSocket.end(): closes the socket; its close handler runs later
clientEnd(st, c) ==
    IF st[c] = "open" THEN [st EXCEPT ![c] = "ended"] ELSE st
\* targetSocket.end()
targetEnd(st, t) ==
    IF st[t] = "open" THEN [st EXCEPT ![t] = "ended"] ELSE st

\* index.ts:26-29
open(c) ==
    /\ cli[c] = "none"
    /\ cli' = [cli EXCEPT ![c] = "open"]
    /\ socketMap' = [socketMap EXCEPT ![c] = TRUE]
    /\ metaTarget' = [metaTarget EXCEPT ![c] = NoSock]
    /\ UNCHANGED <<clientOut, firstChunk, lastChunk, nData, tgt, tgtConn, tgtDest, tgtIn, tgtSent, notProxy>>

\* dataTunnel with the chunk parsed again instead of forwarded
dataTunnelParsed(c, chunk) ==
    /\ IF connectMatch(chunk)
       THEN clientOut' = clientWrite(clientOut, c, Status200)
       ELSE clientOut' = clientWrite(clientOut, c, Status400)
    /\ UNCHANGED <<cli, tgt, tgtConn, tgtDest, tgtIn>>

\* index.ts:37-42: the tunnel is established, the chunk goes to the target socket
dataTunnel(c, chunk) ==
    /\ tgtIn' = [tgtIn EXCEPT ![metaTarget[c]] =
                    IF tgt[metaTarget[c]] = "open" THEN Append(@, chunk) ELSE @]
    /\ UNCHANGED <<cli, clientOut, tgt, tgtConn, tgtDest>>

\* dataBadRequest without clientSocket.end()
dataBadRequestNoEnd(c, chunk) ==
    /\ clientOut' = clientWrite(clientOut, c, Status400)
    /\ UNCHANGED <<cli, tgt, tgtConn, tgtDest, tgtIn>>

\* index.ts:52-57: not a CONNECT request line
dataBadRequest(c, chunk) ==
    /\ clientOut' = clientWrite(clientOut, c, Status400)
    /\ cli' = clientEnd(cli, c)
    /\ UNCHANGED <<tgt, tgtConn, tgtDest, tgtIn>>

\* index.ts:59-88, up to the await: Bun.connect is called for host and port
dataConnect(c, chunk) ==
    /\ \E t \in Socks :
         /\ tgt[t] = "none"
         /\ \A u \in Socks : u < t => tgt[u] # "none"
         /\ tgt' = [tgt EXCEPT ![t] = "connecting"]
         /\ tgtConn' = [tgtConn EXCEPT ![t] = c]
         /\ tgtDest' = [tgtDest EXCEPT ![t] = <<chunk.host, parseInt(chunk.port)>>]
    /\ UNCHANGED <<cli, clientOut, tgtIn>>

\* data with a Bun.connect that blocks the event loop: no data handler runs
\* while a connect is in flight
dataBlocking(c, chunk) ==
    /\ \A t \in Socks : tgt[t] # "connecting"
    /\ cli[c] = "open"
    /\ nData[c] < MaxChunks
    /\ nData' = [nData EXCEPT ![c] = @ + 1]
    /\ firstChunk' = IF nData[c] = 0 THEN [firstChunk EXCEPT ![c] = chunk] ELSE firstChunk
    /\ lastChunk' = [lastChunk EXCEPT ![c] = chunk]
    /\ IF socketMap[c] /\ metaTarget[c] # NoSock
       THEN dataTunnel(c, chunk)
       ELSE IF ~connectMatch(chunk)
            THEN dataBadRequest(c, chunk)
            ELSE dataConnect(c, chunk)
    /\ UNCHANGED <<socketMap, metaTarget, tgtSent, notProxy>>

\* index.ts:32-63: the data handler of a client socket, up to its await
data(c, chunk) ==
    /\ cli[c] = "open"
    /\ nData[c] < MaxChunks
    /\ nData' = [nData EXCEPT ![c] = @ + 1]
    /\ firstChunk' = IF nData[c] = 0 THEN [firstChunk EXCEPT ![c] = chunk] ELSE firstChunk
    /\ lastChunk' = [lastChunk EXCEPT ![c] = chunk]
    /\ IF socketMap[c] /\ metaTarget[c] # NoSock
       THEN dataTunnel(c, chunk)
       ELSE IF ~connectMatch(chunk)
            THEN dataBadRequest(c, chunk)
            ELSE dataConnect(c, chunk)
    /\ UNCHANGED <<socketMap, metaTarget, tgtSent, notProxy>>

\* connectResolved without the assignment to meta.targetSocket
connectResolvedUnlinked(t) ==
    /\ tgt[t] = "connecting"
    /\ tgt' = [tgt EXCEPT ![t] = "open"]
    /\ clientOut' = clientWrite(clientOut, tgtConn[t], Status200)
    /\ UNCHANGED <<cli, socketMap, metaTarget, firstChunk, lastChunk, nData, tgtConn, tgtDest, tgtIn, tgtSent, notProxy>>

\* index.ts:68, 89-98: Bun.connect resolved; the rest of the data handler runs
connectResolved(t) ==
    /\ tgt[t] = "connecting"
    /\ tgt' = [tgt EXCEPT ![t] = "open"]
    /\ metaTarget' = [metaTarget EXCEPT ![tgtConn[t]] = t]
    /\ clientOut' = clientWrite(clientOut, tgtConn[t], Status200)
    /\ UNCHANGED <<cli, socketMap, firstChunk, lastChunk, nData, tgtConn, tgtDest, tgtIn, tgtSent, notProxy>>

\* index.ts:68, 99-106: Bun.connect rejected; the catch block runs
connectRejected(t) ==
    /\ tgt[t] = "connecting"
    /\ tgt' = [tgt EXCEPT ![t] = "failed"]
    /\ clientOut' = clientWrite(clientOut, tgtConn[t], Status502)
    /\ cli' = clientEnd(cli, tgtConn[t])
    /\ UNCHANGED <<socketMap, metaTarget, firstChunk, lastChunk, nData, tgtConn, tgtDest, tgtIn, tgtSent, notProxy>>

\* index.ts:72-74: data handler of the target socket
targetData(t, buf) ==
    /\ tgt[t] = "open"
    /\ tgtSent[t] < MaxTargetData
    /\ tgtSent' = [tgtSent EXCEPT ![t] = @ + 1]
    /\ clientOut' = clientWrite(clientOut, tgtConn[t], buf)
    /\ UNCHANGED <<cli, socketMap, metaTarget, firstChunk, lastChunk, nData, tgt, tgtConn, tgtDest, tgtIn, notProxy>>

\* index.ts:75-78: close handler of the target socket
targetClose(t) ==
    /\ tgt[t] \in {"open", "ended", "errored"}
    /\ tgt' = [tgt EXCEPT ![t] = "closed"]
    /\ cli' = clientEnd(cli, tgtConn[t])
    /\ UNCHANGED <<socketMap, metaTarget, clientOut, firstChunk, lastChunk, nData, tgtConn, tgtDest, tgtIn, tgtSent, notProxy>>

\* index.ts:79-83: error handler of the target socket
targetError(t) ==
    /\ tgt[t] = "open"
    /\ tgt' = [tgt EXCEPT ![t] = "errored"]
    /\ clientOut' = clientWrite(clientOut, tgtConn[t], Status502)
    /\ cli' = clientEnd(cli, tgtConn[t])
    /\ UNCHANGED <<socketMap, metaTarget, firstChunk, lastChunk, nData, tgtConn, tgtDest, tgtIn, tgtSent, notProxy>>

\* index.ts:110-117: close handler of a client socket
close(c) ==
    /\ cli[c] \in {"open", "ended", "errored"}
    /\ cli' = [cli EXCEPT ![c] = "closed"]
    /\ tgt' = IF socketMap[c] /\ metaTarget[c] # NoSock THEN targetEnd(tgt, metaTarget[c]) ELSE tgt
    /\ socketMap' = [socketMap EXCEPT ![c] = FALSE]
    /\ UNCHANGED <<metaTarget, clientOut, firstChunk, lastChunk, nData, tgtConn, tgtDest, tgtIn, tgtSent, notProxy>>

\* index.ts:119-125: error handler of a client socket
error(c) ==
    /\ cli[c] = "open"
    /\ cli' = [cli EXCEPT ![c] = "errored"]
    /\ tgt' = IF socketMap[c] /\ metaTarget[c] # NoSock THEN targetEnd(tgt, metaTarget[c]) ELSE tgt
    /\ UNCHANGED <<socketMap, metaTarget, clientOut, firstChunk, lastChunk, nData, tgtConn, tgtDest, tgtIn, tgtSent, notProxy>>

NextProxy ==
    \/ \E c \in Conns : open(c)
    \/ \E c \in Conns, chunk \in Chunks : data(c, chunk)
    \/ \E t \in Socks : connectResolved(t)
    \/ \E t \in Socks : connectRejected(t)
    \/ \E t \in Socks, buf \in TargetChunks : targetData(t, buf)
    \/ \E t \in Socks : targetClose(t)
    \/ \E t \in Socks : targetError(t)
    \/ \E c \in Conns : close(c)
    \/ \E c \in Conns : error(c)

(***************************************************************************)
(* index.ts, the established tunnel at the level of bytes.  The state is   *)
(* the one after connectResolved: meta.targetSocket is set and both        *)
(* sockets are open.  Each side's stream is the bytes 1, 2, 3, ...; a      *)
(* chunk is the next 1..MaxChunkLen of them.  socket.write accepts as many *)
(* bytes as the send buffer has room for and returns their number; Bun     *)
(* keeps none of the rest, and fires drain when the socket is writable     *)
(* again.                                                                  *)
(***************************************************************************)
\* socket.write(buffer) on a socket with `room` free bytes: the bytes accepted
socketWrite(buffer, room) ==
    SubSeq(buffer, 1, IF Len(buffer) <= room THEN Len(buffer) ELSE room)

\* index.ts:40 (toTarget: targetSocket.write(buffer)) and index.ts:73 (toClient:
\* clientSocket.write(buf)); the value write returns is not read
bridgeWrite(d, buffer) ==
    /\ bRecv' = [bRecv EXCEPT ![d] = @ \o socketWrite(buffer, bRoom[d])]
    /\ bRoom' = [bRoom EXCEPT ![d] = @ - Len(socketWrite(buffer, bRoom[d]))]
    /\ bPressure' = [bPressure EXCEPT ![d] = @ \/ Len(buffer) > bRoom[d]]
    /\ bWrites' = [bWrites EXCEPT ![d] = IF bPressure[d] THEN @ + 1 ELSE @]

\* the chunk of n bytes that follows the bytes already delivered
nextChunk(d, n) == [i \in 1..n |-> bSent[d] + i]

\* index.ts:32-42: data handler of the client socket, tunnel established
bridgeData(n) ==
    /\ bSent["toTarget"] + n <= MaxBytes
    /\ bSent' = [bSent EXCEPT !["toTarget"] = @ + n]
    /\ bridgeWrite("toTarget", nextChunk("toTarget", n))
    /\ UNCHANGED notBridge

\* index.ts:72-74: data handler of the target socket
bridgeTargetData(n) ==
    /\ bSent["toClient"] + n <= MaxBytes
    /\ bSent' = [bSent EXCEPT !["toClient"] = @ + n]
    /\ bridgeWrite("toClient", nextChunk("toClient", n))
    /\ UNCHANGED notBridge

\* the socket's send buffer went out to the peer; after a short write this is
\* when drain fires.  index.ts:84-86 (target socket) and index.ts:127-131
\* (client socket): both handlers are empty
drain(d) ==
    /\ bRoom[d] < BufCap
    /\ bRoom' = [bRoom EXCEPT ![d] = BufCap]
    /\ bPressure' = [bPressure EXCEPT ![d] = FALSE]
    /\ UNCHANGED <<bSent, bRecv, bWrites, notBridge>>

NextBridge ==
    \/ \E n \in 1..MaxChunkLen : bridgeData(n)
    \/ \E n \in 1..MaxChunkLen : bridgeTargetData(n)
    \/ \E d \in Directions : drain(d)

SpecBridge == Init /\ [][NextBridge]_vars

\* serve.ts:62, 73 and certs.test.ts:56-58: the root CA is generated before
\* anything else runs
callGenerateRootCA(commonName, ski) ==
    /\ keys = 0
    /\ keys' = 1
    /\ rootCA' = generateRootCA(commonName, 10, 1, clock, ski)
    /\ UNCHANGED <<clock, csrs, certs, notCert>>

\* callCreateCSR by a process that makes itself a new root CA for each domain
callCreateCSRNewRoot(domain) ==
    /\ rootCA # NoRootCA
    /\ Len(csrs) < MaxCSR
    /\ keys' = keys + 2
    /\ rootCA' = generateRootCA("CodikyoProxyRoot", 10, keys + 2, clock, FALSE)
    /\ csrs' = Append(csrs, [domain |-> domain, result |-> createCSR(domain, keys + 1)])
    /\ UNCHANGED <<clock, certs, notCert>>

\* callCreateCSR with a createCSR that signs with the key pair of the root CA
callCreateCSRCaKey(domain) ==
    /\ rootCA # NoRootCA
    /\ Len(csrs) < MaxCSR
    /\ csrs' = Append(csrs, [domain |-> domain, result |-> createCSR(domain, rootCA.privateKey)])
    /\ UNCHANGED <<clock, keys, rootCA, certs, notCert>>

\* certs.test.ts:87, serve.ts:78: createCSR is called for a domain
callCreateCSR(domain) ==
    /\ rootCA # NoRootCA
    /\ Len(csrs) < MaxCSR
    /\ keys' = keys + 1
    /\ csrs' = Append(csrs, [domain |-> domain, result |-> createCSR(domain, keys + 1)])
    /\ UNCHANGED <<clock, rootCA, certs, notCert>>

\* certs.test.ts:88: signCSR is called with the root CA and a CSR
callSignCSR(i) ==
    /\ i <= Len(csrs)
    /\ Len(certs) < MaxCert
    /\ certs' = Append(certs, [csr |-> i, result |-> signCSR(rootCA, csrs[i].result.csr, 365, clock)])
    /\ UNCHANGED <<clock, keys, rootCA, csrs, notCert>>

\* serve.ts:80-85: signCSRWithFullChain is called with the root CA, a CSR and
\* the PEM of the CSR's private key
callSignCSRWithFullChain(i) ==
    /\ i <= Len(csrs)
    /\ Len(certs) < MaxCert
    /\ certs' = Append(certs, [csr |-> i,
                               result |-> signCSRWithFullChain(rootCA, csrs[i].result.csr,
                                              csrs[i].result.privateKeyPEM, 365, clock)])
    /\ UNCHANGED <<clock, keys, rootCA, csrs, notCert>>

\* a millisecond passes
tick ==
    /\ clock < MaxClock
    /\ clock' = clock + 1
    /\ UNCHANGED <<keys, rootCA, csrs, certs, notCert>>

NextCert ==
    \/ \E commonName \in CommonNames, ski \in BOOLEAN : callGenerateRootCA(commonName, ski)
    \/ \E domain \in Domains : callCreateCSR(domain)
    \/ \E i \in 1..MaxCSR : callSignCSR(i)
    \/ \E i \in 1..MaxCSR : callSignCSRWithFullChain(i)
    \/ tick
SpecCert == Init /\ [][NextCert]_vars

(***************************************************************************)
(* serve.ts:7-73, loadRootCA at the start of the process                   *)
(***************************************************************************)
\* the two files
CAFiles == {"./certs/rootCA.crt", "./certs/rootCA.key"}
\* what a file can be after it was deleted, truncated or overwritten from
\* outside: absent, empty, not base64, base64 of something that is no DER
TamperedFiles ==
    {NoFile, File(<< >>), File(<<Junk>>), File(toPEM(<<1, 9>>, "CERTIFICATE"))}

\* serve.ts:38-49: one of pemToDer, Certificate.fromBER, importKey throws
parseThrows(certificatePEM, privateKeyPEM) ==
    \/ atobThrows(certificatePEM)
    \/ fromBERThrows(pemToDer(certificatePEM))
    \/ atobThrows(privateKeyPEM)
    \/ importKeyThrows(pemToDer(privateKeyPEM))
\* serve.ts:34-52: the root CA read from the two texts
parseRootCA(certificatePEM, privateKeyPEM) ==
    [ certificatePEM |-> certificatePEM,
      privateKeyPEM |-> privateKeyPEM,
      privateKey |-> importPkcs8(pemToDer(privateKeyPEM)),
      certificate |-> fromBER(pemToDer(certificatePEM)) ]

\* `bun serve.ts`: the process starts and evaluates serve.ts:73
startProcess ==
    /\ loadPc = "off"
    /\ runs < MaxRuns
    /\ runs' = runs + 1
    /\ loadPc' = "start"
    /\ UNCHANGED <<certFile, keyFile, fresh, loadWrites, tampers, certVars, notLoad>>

\* loadRootCA that writes what it has read back to the two files
loadRootCARewrites ==
    /\ loadPc = "start"
    /\ IF certFile.exists /\ keyFile.exists /\ ~parseThrows(certFile.text, keyFile.text)
       THEN /\ rootCA' = parseRootCA(certFile.text, keyFile.text)
            /\ certFile' = File(certFile.text)
            /\ keyFile' = File(keyFile.text)
            /\ loadWrites' = loadWrites + 2
            /\ loadPc' = "ready"
       ELSE /\ loadPc' = "generate"
            /\ UNCHANGED <<rootCA, certFile, keyFile, loadWrites>>
    /\ UNCHANGED <<fresh, runs, tampers, clock, keys, csrs, certs, notLoad>>

\* serve.ts:23-59, 73: both files exist and parse, and loadRootCA returns
\* what they hold; or one is missing or does not parse, and it goes on to
\* generate
loadRootCA ==
    /\ loadPc = "start"
    /\ IF certFile.exists /\ keyFile.exists /\ ~parseThrows(certFile.text, keyFile.text)
       THEN /\ rootCA' = parseRootCA(certFile.text, keyFile.text)
            /\ loadPc' = "ready"
       ELSE /\ loadPc' = "generate"
            /\ UNCHANGED rootCA
    /\ UNCHANGED <<certFile, keyFile, fresh, loadWrites, runs, tampers,
                   clock, keys, csrs, certs, notLoad>>

\* serve.ts:62
loadGenerate(ski) ==
    /\ loadPc = "generate"
    /\ keys' = keys + 1
    /\ fresh' = generateRootCA("CodikyoProxyRoot", 10, keys + 1, clock, ski)
    /\ loadPc' = "writeCert"
    /\ UNCHANGED <<certFile, keyFile, loadWrites, runs, tampers, clock, rootCA, csrs, certs, notLoad>>

\* serve.ts:65
loadWriteCert ==
    /\ loadPc = "writeCert"
    /\ certFile' = File(fresh.certificatePEM)
    /\ loadWrites' = loadWrites + 1
    /\ loadPc' = "writeKey"
    /\ UNCHANGED <<keyFile, fresh, runs, tampers, certVars, notLoad>>

\* loadWriteKey that returns without writing the key file
loadWriteKeySkipped ==
    /\ loadPc = "writeKey"
    /\ rootCA' = fresh
    /\ fresh' = NoRootCA
    /\ loadPc' = "ready"
    /\ UNCHANGED <<certFile, keyFile, loadWrites, runs, tampers, clock, keys, csrs, certs, notLoad>>

\* serve.ts:67-70, 73: the key file is written and loadRootCA returns the
\* generated root CA
loadWriteKey ==
    /\ loadPc = "writeKey"
    /\ keyFile' = File(fresh.privateKeyPEM)
    /\ loadWrites' = loadWrites + 1
    /\ rootCA' = fresh
    /\ fresh' = NoRootCA
    /\ loadPc' = "ready"
    /\ UNCHANGED <<certFile, runs, tampers, clock, keys, csrs, certs, notLoad>>

\* the process ends, at any point: what it held in memory is gone, the
\* files stay as they are
exitProcess ==
    /\ loadPc # "off"
    /\ loadPc' = "off"
    /\ rootCA' = NoRootCA
    /\ fresh' = NoRootCA
    /\ csrs' = << >>
    /\ certs' = << >>
    /\ loadWrites' = 0
    /\ UNCHANGED <<certFile, keyFile, runs, tampers, clock, keys, notLoad>>

\* while the process is not running a file is deleted, truncated or overwritten
tamper(file, content) ==
    /\ loadPc = "off"
    /\ tampers < MaxTampers
    /\ tampers' = tampers + 1
    /\ IF file = "./certs/rootCA.crt"
       THEN certFile' = content /\ UNCHANGED keyFile
       ELSE keyFile' = content /\ UNCHANGED certFile
    /\ UNCHANGED <<loadPc, fresh, loadWrites, runs, certVars, notLoad>>

NextLoad ==
    \/ startProcess
    \/ loadRootCA
    \/ \E ski \in BOOLEAN : loadGenerate(ski)
    \/ loadWriteCert
    \/ loadWriteKey
    \/ exitProcess
    \/ \E file \in CAFiles, content \in TamperedFiles : tamper(file, content)
    \/ \E domain \in Domains : callCreateCSR(domain)
    \/ \E i \in 1..MaxCSR : callSignCSRWithFullChain(i)
    \/ tick
SpecLoad == Init /\ [][NextLoad]_vars
SpecServe == Init /\ [][NextServe]_vars
\* every promise a request awaits (createCSR, signCSRWithFullChain,
\* server.fetch) settles
settle(r) ==
    createCSRResolved(r) \/ createServerRejected(r) \/ createServerForDomain(r) \/ serverFetch(r)
SpecServeLive == SpecServe /\ \A r \in Requests : WF_vars(settle(r))
SpecProxy == Init /\ [][NextProxy]_vars
(***************************************************************************)
(* unnamed/part_000: the handler of the target test server                 *)
(***************************************************************************)
\* part_000:20-199  a request arrives and the handler answers it
handler(method, pathname, remote) ==
    /\ running
    /\ request = NoRequest
    /\ request' = [method |-> method, pathname |-> pathname]
    /\ response' = served(handlerOutcome(method, pathname, remote).result)
    /\ outbound' = handlerOutcome(method, pathname, remote).outbound
    /\ exiting' = (exiting \/ pathname = <<"exit">>)
    /\ UNCHANGED <<running, notTarget>>

\* the client has the response; the server waits for the next request
responseSent ==
    /\ request # NoRequest
    /\ request' = NoRequest
    /\ response' = NoResponse
    /\ outbound' = ""
    /\ UNCHANGED <<running, exiting, notTarget>>

\* part_000:61  setTimeout(process.exit, 0, 0) fires
processExit ==
    /\ running
    /\ exiting
    /\ running' = FALSE
    /\ UNCHANGED <<exiting, request, response, outbound, notTarget>>

NextTarget ==
    \/ \E method \in Methods, pathname \in Pathnames, remote \in Remotes :
          handler(method, pathname, remote)
    \/ responseSent
    \/ processExit
SpecTarget == Init /\ [][NextTarget]_vars
(***************************************************************************)
(* Helpers of the properties                                               *)
(***************************************************************************)
Range(seq) == {seq[i] : i \in 1..Len(seq)}
Count(seq, x) == Cardinality({i \in 1..Len(seq) : seq[i] = x})
\* the target sockets Bun.connect was asked for by connection c
SocksOf(c) == {t \in Socks : tgt[t] # "none" /\ tgtConn[t] = c}
\* target sockets whose Bun.connect resolved
Resolved(t) == tgt[t] \in {"open", "ended", "errored", "closed"}
\* some payload has been relayed on connection c, in either direction
Tunneled(c) ==
    \/ \E t \in SocksOf(c) : tgtIn[t] # << >>
    \/ Range(clientOut[c]) \cap TargetChunks # {}
\* no createServerForDomain of domain d has thrown
NoneRejected(d) == \A r \in Requests : reqDomain[r] = d => reqResp[r] # 500

(***************************************************************************)
(* serve.ts: the servers cache                                             *)
(***************************************************************************)
\* C1: requests for the same unseen domain, handled concurrently, issue exactly
\* one certificate (one createCSR, one signing) and create exactly one endpoint,
\* and all of them are served by that endpoint.
C1_OneIssuancePerDomain ==
    \A d \in Domains :
        NoneRejected(d) =>
            /\ csrCalls[d] <= 1
            /\ signCalls[d] <= 1
            /\ Cardinality(ListenersOf(d)) <= 1
            /\ \A r1, r2 \in Requests :
                 (/\ reqDomain[r1] = d /\ reqDomain[r2] = d
                  /\ reqServer[r1] # NoServer /\ reqServer[r2] # NoServer)
                 => reqServer[r1] = reqServer[r2]

\* C2: for every domain, at most one execution of createServerForDomain is in
\* flight in every reachable state.
C2_AtMostOneInFlight ==
    \A d \in Domains : Cardinality(InFlight(d)) <= 1

\* C3: once a domain is mapped to an endpoint, the entry is never removed and
\* never replaced by a different endpoint.
C3_EndpointNeverReplaced ==
    [][\A d \in Domains : servers[d] # NoServer => servers'[d] = servers[d]]_vars

(***************************************************************************)
(* index.ts: the CONNECT proxy                                             *)
(***************************************************************************)
\* C4: on every client connection 200 Connection Established is written at most
\* once, and exactly once when the target was resolved (the client still open).
C4_Exactly200Once ==
    \A c \in Conns :
        /\ Count(clientOut[c], Status200) <= 1
        /\ (cli[c] = "open" /\ \E t \in SocksOf(c) : Resolved(t))
              => Count(clientOut[c], Status200) = 1

\* C5: a failed target resolution leaves the client socket closed, and on no
\* connection a 502 follows a 200.
C5_Never200Then502 ==
    \A c \in Conns :
        /\ \A t \in SocksOf(c) : tgt[t] = "failed" => cli[c] # "open"
        /\ \A i, j \in 1..Len(clientOut[c]) :
               (clientOut[c][i] = Status200 /\ clientOut[c][j] = Status502) => j < i

\* C6: a 502 is written to a client only while nothing has been tunneled on its
\* connection; after that a target error only closes the client socket.
C6_No502IntoTunnel ==
    [][\A c \in Conns :
          Tunneled(c) => Count(clientOut'[c], Status502) = Count(clientOut[c], Status502)]_vars

\* C7: once the close handler of a client socket has run, no target socket opened
\* for the connection stays open, and once a target socket closed, errored or
\* failed, its client socket is no longer open.
C7_ClosePropagates ==
    \A c \in Conns : \A t \in SocksOf(c) :
        /\ cli[c] = "closed" => tgt[t] # "open"
        /\ tgt[t] \in {"closed", "errored", "failed"} => cli[c] # "open"

\* C8: 200 Connection Established is written to a client only in a step after
\* which the connection's metadata holds an open target socket of that
\* connection; a client that got 200 has a resolved target in its metadata.
C8_TargetRecordedBefore200 ==
    /\ [][\A c \in Conns :
            Count(clientOut'[c], Status200) > Count(clientOut[c], Status200)
              => /\ socketMap'[c]
                 /\ metaTarget'[c] # NoSock
                 /\ tgt'[metaTarget'[c]] = "open"
                 /\ tgtConn'[metaTarget'[c]] = c]_vars
    /\ [](\A c \in Conns :
            Status200 \in Range(clientOut[c])
              => metaTarget[c] # NoSock /\ Resolved(metaTarget[c]))
C8_Witness ==
    \E c \in Conns : Status200 \in Range(clientOut[c])

\* C9: a first chunk that is no CONNECT request line gets 400 Bad Request and
\* nothing else, the client socket is ended and no target socket is opened.
C9_BadRequestTerminal ==
    \A c \in Conns :
        (nData[c] > 0 /\ ~connectMatch(firstChunk[c]))
          => /\ clientOut[c] = <<Status400>>
             /\ cli[c] \in {"ended", "closed"}
             /\ metaTarget[c] = NoSock
             /\ SocksOf(c) = {}
C9_Witness ==
    \E c \in Conns :
        /\ nData[c] > 0 /\ ~connectMatch(firstChunk[c])
        /\ cli[c] = "closed"
        /\ \E t \in Socks : tgt[t] = "open"

\* C10: after 200 was written to a client, each later chunk of that client is
\* written to the target socket of the connection's metadata as it is; no
\* Bun.connect is started for it and nothing is written to the client.
C10_PayloadAfter200 ==
    [][\A c \in Conns :
          (nData'[c] = nData[c] + 1 /\ Status200 \in Range(clientOut[c]))
            => /\ metaTarget[c] # NoSock
               /\ tgtIn' = [tgtIn EXCEPT ![metaTarget[c]] = Append(@, lastChunk'[c])]
               /\ clientOut' = clientOut
               /\ tgt' = tgt
               /\ cli' = cli]_vars
C10_Witness ==
    \E c \in Conns : \E t \in SocksOf(c) :
        /\ Status200 \in Range(clientOut[c])
        /\ \E i \in 1..Len(tgtIn[t]) : connectMatch(tgtIn[t][i])
\* the first n bytes of a side's stream
Stream(n) == [i \in 1..n |-> i]

\* C11: in a tunnel the bytes the target accepted are the bytes received from
\* the client, and the bytes the client accepted are the bytes received from
\* the target: none lost, duplicated or reordered, also after a short write.
C11_BytesPreserved ==
    \A d \in Directions : bRecv[d] = Stream(bSent[d])

\* C12: after a write that the destination socket did not accept whole, no
\* further chunk is written to it until its drain has fired.
C12_BackpressureHonoured ==
    \A d \in Directions : bWrites[d] = 0

\* the request's step from arrival to the outcome of its servers.get lookup
Lookup(r, d) == reqPc[r] = "new" /\ reqPc'[r] # "new" /\ reqDomain'[r] = d
\* the request's creation fails
Fails(r) == reqPc[r] \in {"createCSR", "sign"} /\ reqResp'[r] = 500
\* the requests that have arrived
Arrived == {r \in Requests : reqPc[r] # "new"}

\* C13: a failed creation leaves no entry for its domain in servers (the map
\* is as it was, and an entry is always a listener that was created for the
\* domain), and a lookup that finds no entry starts a fresh creation.
C13_FailureNotCached ==
    [][ /\ \A r \in Requests : Fails(r) => servers' = servers
        /\ \A d \in Domains : servers'[d] # NoServer => servers'[d] \in ListenersOf(d)'
        /\ \A r \in Requests, d \in Domains :
              Lookup(r, d) /\ servers[d] = NoServer =>
                  /\ reqPc'[r] = "createCSR"
                  /\ csrCalls'[d] = csrCalls[d] + 1 ]_vars
\* a domain whose first creation failed and whose second one produced the endpoint
C13_Witness ==
    \E d \in Domains, r1, r2 \in Requests :
        /\ reqDomain[r1] = d /\ reqResp[r1] = 500
        /\ reqDomain[r2] = d /\ reqResp[r2] = 200
        /\ csrCalls[d] = 2 /\ signCalls[d] = 1
        /\ servers[d] = reqServer[r2]

\* C14: a request that arrives after a request of the same domain has
\* completed with 200 calls neither createCSR nor signCSRWithFullChain and
\* creates no listener; it is served by the cached endpoint, which is, when
\* the first request was the only one to create, the first request's endpoint.
C14_SecondRequestReuses ==
    [][ \A r, r1 \in Requests, d \in Domains :
          Lookup(r, d) /\ reqDomain[r1] = d /\ reqPc[r1] = "done" /\ reqResp[r1] = 200 =>
              /\ csrCalls' = csrCalls /\ signCalls' = signCalls /\ listeners' = listeners
              /\ reqPc'[r] = "fetch"
              /\ reqServer'[r] = servers[d]
              /\ csrCalls[d] = 1 => reqServer'[r] = reqServer[r1] ]_vars
\* two requests of one domain, both answered 200 by the only endpoint created
C14_Witness ==
    \E d \in Domains, r1, r2 \in Requests :
        /\ r1 # r2 /\ Arrived = {r1, r2}
        /\ reqDomain[r1] = d /\ reqDomain[r2] = d
        /\ reqResp[r1] = 200 /\ reqResp[r2] = 200
        /\ csrCalls[d] = 1 /\ signCalls[d] = 1 /\ Len(listeners) = 1
        /\ reqServer[r1] = reqServer[r2]

\* the only request that has arrived, its Host header named a domain
Sole(r) == Arrived = {r} /\ reqDomain[r] # ""
C17_AbortKeepsCreation ==
    [][ /\ \A r \in Requests :
              reqAborted'[r] /\ ~reqAborted[r] =>
                  reqPc' = reqPc /\ servers' = servers /\ listeners' = listeners
        /\ \A r \in Requests :
              reqAborted[r] /\ reqPc[r] = "sign" /\ reqPc'[r] = "fetch" =>
                  /\ Len(listeners') = Len(listeners) + 1
                  /\ servers'[reqDomain[r]] = Len(listeners')
                  /\ reqServer'[r] = Len(listeners')
        /\ \A r \in Requests, d \in Domains :
              Lookup(r, d) /\ servers[d] # NoServer => reqServer'[r] = servers[d] ]_vars
\* a request answered 200 by the endpoint that a disconnected client's request created
C17_Witness ==
    \E d \in Domains, r1, r2 \in Requests :
        /\ r1 # r2 /\ reqDomain[r1] = d /\ reqDomain[r2] = d
        /\ reqAborted[r1] /\ ~reqAborted[r2]
        /\ csrCalls[d] = 1 /\ Cardinality(ListenersOf(d)) = 1
        /\ reqServer[r1] = servers[d] /\ reqServer[r2] = servers[d]
        /\ reqResp[r2] = 200

\* connection c failed: its first chunk is no CONNECT request line, or a
\* Bun.connect of it was rejected
Failed(c) ==
    /\ firstChunk[c] # NoChunk
    /\ \/ ~connectMatch(firstChunk[c])
       \/ \E t \in SocksOf(c) : tgt[t] = "failed"
\* C16: what the proxy itself writes on a client socket is one of the status
\* lines 200, 400, 502 (the rest is what the target sent), and a connection
\* that failed with nothing tunneled has been sent exactly one response, the
\* 400 or the 502, unless its client had gone before.
C16_OneStatusOnFailure ==
    \A c \in Conns :
        /\ Range(clientOut[c]) \subseteq {Status200, Status400, Status502} \cup TargetChunks
        /\ Failed(c) /\ ~Tunneled(c) =>
              \/ clientOut[c] \in {<<Status400>>, <<Status502>>}
              \/ clientOut[c] = << >> /\ cli[c] \in {"closed", "errored"}

\* the certificates issued so far
Issued == 1..Len(certs)
\* the certificate of the i-th signCSR call, the CSR and the domain it was issued for
certOf(i) == certs[i].result.certificate
csrOf(i) == csrs[certs[i].csr].result.csr
domainOf(i) == csrs[certs[i].csr].domain

\* C18: the certificate signCSR issues for the CSR createCSR made for domain
\* d has a subjectAltName with exactly the two DNS names d and *.d.
C18_SanDomainAndWildcard ==
    \A i \in Issued :
        /\ Len(extractSANs(certOf(i))) = 2
        /\ Range(extractSANs(certOf(i))) = {domainOf(i), wildcard(domainOf(i))}

\* C19: the certificate signCSR issues has as issuer CN the subject CN of the
\* root CA it was signed with, and as subject CN the domain of its CSR.
C19_IssuerAndSubject ==
    \A i \in Issued :
        /\ CN(certOf(i).issuer) = CN(rootCA.certificate.subject)
        /\ CN(certOf(i).subject) = domainOf(i)
C19_Witness ==
    \E i \in Issued :
        /\ CN(certOf(i).issuer) \in CommonNames
        /\ CN(certOf(i).subject) \in Domains

\* C20: the subjectPublicKeyInfo of an issued certificate is that of the CSR
\* it was issued from: the public key createCSR generated for that CSR.
C20_PublicKeyOfCsr ==
    \A i \in Issued :
        /\ certOf(i).subjectPublicKeyInfo = csrOf(i).subjectPublicKeyInfo
        /\ certOf(i).subjectPublicKeyInfo = importKey(csrs[certs[i].csr].result.publicKey)
\* two CSRs with their own keys, and a certificate for the second
C20_Witness ==
    \E i \in Issued :
        /\ Len(csrs) = 2 /\ certs[i].csr = 2
        /\ certOf(i).subjectPublicKeyInfo.publicKey = 3

\* the k-th smallest element of a set of numbers
Nth(S, k) == CHOOSE x \in S : Cardinality({y \in S : y <= x}) = k
\* the positions of the BEGIN CERTIFICATE and of the END CERTIFICATE lines of a text
BeginsOf(text) ==
    {i \in 1..Len(text) : text[i].tag = "-----BEGIN" /\ text[i].label = "CERTIFICATE"}
EndsOf(text) ==
    {i \in 1..Len(text) : text[i].tag = "-----END" /\ text[i].label = "CERTIFICATE"}
\* the k-th CERTIFICATE block of a text, from its BEGIN line to its END line
BlockOf(text, k) == SubSeq(text, Nth(BeginsOf(text), k), Nth(EndsOf(text), k))
\* the certificates that came with a chain
Chained == {i \in Issued : "fullChainPEM" \in DOMAIN certs[i].result}

\* C21: the chain PEM of an issued certificate has exactly two CERTIFICATE
\* blocks; the first decodes to the leaf certificate issued for the domain,
\* the second to the certificate of the root CA.
C21_ChainLeafThenRoot ==
    \A i \in Chained :
        LET chain == certs[i].result.fullChainPEM
        IN /\ Cardinality(BeginsOf(chain)) = 2
           /\ Cardinality(EndsOf(chain)) = 2
           /\ ~isCA(certOf(i))
           /\ CN(certOf(i).subject) = domainOf(i)
           /\ pemToDer(BlockOf(chain, 1)) = toBER(certOf(i))
           /\ pemToDer(BlockOf(chain, 2)) = toBER(rootCA.certificate)
\* a chain issued under a root CA that was read from the files
C21_Witness ==
    \E i \in Chained :
        /\ runs = 2 /\ loadWrites = 0 /\ loadPc = "ready"
        /\ Len(certs[i].result.fullChainPEM) > 128

\* the basicConstraints extensions of a certificate
BasicConstraintsOf(certificate) ==
    {i \in 1..Len(certificate.extensions) : certificate.extensions[i].extnID = OidBasicConstraints}

\* C22: the root CA generateRootCA returns is self-signed (issuer CN equal to
\* subject CN, signed with its own private key, the key of its certificate)
\* and has a basicConstraints extension that is critical with cA = true.
C22_RootSelfSignedCA ==
    rootCA # NoRootCA =>
        /\ CN(rootCA.certificate.issuer) = CN(rootCA.certificate.subject)
        /\ rootCA.certificate.signedBy = rootCA.privateKey
        /\ rootCA.certificate.subjectPublicKeyInfo = importKey(rootCA.privateKey)
        /\ BasicConstraintsOf(rootCA.certificate) # {}
        /\ \A i \in BasicConstraintsOf(rootCA.certificate) :
              /\ rootCA.certificate.extensions[i].critical
              /\ rootCA.certificate.extensions[i].extnValue.cA
C22_Witness ==
    /\ rootCA # NoRootCA
    /\ CN(rootCA.certificate.subject) = "TestRootCA"
    /\ Len(rootCA.certificate.extensions) = 4

\* the root CAs generateRootCA has returned and the process holds
HeldRootCAs == {fresh, rootCA} \ {NoRootCA}
\* loadRootCA returned what it read from the two files
Loaded == loadPc = "ready" /\ loadWrites = 0

\* C23: the PEM texts of a root CA, written to the two files and read back,
\* are the same texts, parse without an error, and give the certificate
\* (and so the subject CN) and the private key of that root CA; a root CA
\* read back signs the leaf certificates issued under it.
C23_RootRoundTrip ==
    /\ \A ca \in HeldRootCAs :
          /\ File(ca.certificatePEM).text = ca.certificatePEM
          /\ File(ca.privateKeyPEM).text = ca.privateKeyPEM
          /\ ~parseThrows(ca.certificatePEM, ca.privateKeyPEM)
          /\ parseRootCA(ca.certificatePEM, ca.privateKeyPEM) = ca
    /\ Loaded =>
          /\ rootCA = parseRootCA(certFile.text, keyFile.text)
          /\ \A i \in Issued :
                /\ certOf(i).signedBy = rootCA.privateKey
                /\ certOf(i).issuer = rootCA.certificate.subject
\* a root CA with key identifiers (a PEM of more than one line), read back
\* from the files an earlier run wrote, has signed a certificate
C23_Witness ==
    /\ Loaded /\ tampers = 0
    /\ hasSki(rootCA.certificate)
    /\ CN(rootCA.certificate.subject) = "CodikyoProxyRoot"
    /\ rootCA.certificate.subjectPublicKeyInfo = importKey(rootCA.privateKey)
    /\ Issued # {}

\* the two files exist and parse
FilesValid == certFile.exists /\ keyFile.exists /\ ~parseThrows(certFile.text, keyFile.text)

\* C24: the running process writes a CA file only after loadRootCA has
\* generated a root CA, and then that CA's PEM; when both files exist and
\* parse, loadRootCA returns what they hold and makes no write.
C24_WritesOnlyWhenGenerated ==
    [][ /\ loadWrites' > loadWrites =>
              /\ loadPc \in {"writeCert", "writeKey"}
              /\ fresh # NoRootCA
              /\ certFile' \in {certFile, File(fresh.certificatePEM)}
              /\ keyFile' \in {keyFile, File(fresh.privateKeyPEM)}
        /\ loadPc # "off" /\ loadWrites' = loadWrites => certFile' = certFile /\ keyFile' = keyFile
        /\ loadPc = "start" /\ loadPc' \notin {"start", "off"} /\ FilesValid =>
              /\ loadPc' = "ready"
              /\ rootCA' = parseRootCA(certFile.text, keyFile.text)
              /\ loadWrites' = loadWrites
              /\ certFile' = certFile /\ keyFile' = keyFile ]_vars
\* a run that found valid files is ready without a write, the files as the
\* run before left them
C24_Witness ==
    /\ runs = 2 /\ Loaded
    /\ certFile = File(rootCA.certificatePEM)
    /\ keyFile = File(rootCA.privateKeyPEM)

\* C25: when a file is missing or the two do not parse, loadRootCA goes on
\* to generate a root CA instead of failing, and when it has returned that
\* root CA the certificate file and the key file hold its two PEM texts.
C25_RegeneratedAndPersisted ==
    [][ /\ loadPc = "start" /\ loadPc' \notin {"start", "off"} /\ ~FilesValid =>
              loadPc' = "generate" /\ rootCA' = NoRootCA
        /\ loadPc = "generate" /\ loadPc' \notin {"generate", "off"} =>
              /\ fresh' # NoRootCA
              /\ fresh'.certificate.subjectPublicKeyInfo = importKey(fresh'.privateKey)
              /\ fresh'.privateKey = keys'
        /\ loadPc' = "ready" /\ loadWrites' > 0 =>
              /\ loadWrites' = 2
              /\ rootCA' \in {rootCA, fresh}
              /\ rootCA' # NoRootCA
              /\ certFile' = File(rootCA'.certificatePEM)
              /\ keyFile' = File(rootCA'.privateKeyPEM) ]_vars
\* a run that found a file changed from outside has returned a root CA of
\* its own making, and the files hold it
C25_Witness ==
    /\ runs = 2 /\ tampers = 1 /\ loadPc = "ready" /\ loadWrites = 2
    /\ rootCA.privateKey = 2
    /\ certFile.text = rootCA.certificatePEM /\ keyFile.text = rootCA.privateKeyPEM

\* C26: the root CA is set once, by loadRootCA, before anything is issued,
\* and stays the same for as long as the process runs: no root CA is
\* generated while a CSR or a certificate exists, and every certificate the
\* process has issued is signed by that root CA and names it as issuer.
C26_RootCAFixed ==
    [][ /\ rootCA # NoRootCA /\ loadPc' # "off" => rootCA' = rootCA
        /\ rootCA' # rootCA /\ rootCA' # NoRootCA =>
              loadPc \in {"start", "writeKey"} /\ loadPc' = "ready"
        /\ fresh' \notin {fresh, NoRootCA} => csrs = << >> /\ certs = << >>
        /\ csrs' # << >> \/ certs' # << >> => loadPc' = "ready" /\ rootCA' # NoRootCA
        /\ \A i \in 1..Len(certs') :
              /\ certs'[i].result.certificate.signedBy = rootCA'.privateKey
              /\ certs'[i].result.certificate.issuer = rootCA'.certificate.subject ]_vars
\* two certificates of different domains and serial numbers under the one root CA
C26_Witness ==
    \E i, j \in Issued :
        /\ domainOf(i) # domainOf(j)
        /\ certOf(i).serialNumber # certOf(j).serialNumber
        /\ certOf(i).signedBy = rootCA.privateKey
        /\ certOf(j).signedBy = rootCA.privateKey
        /\ loadPc = "ready"

(***************************************************************************)
(* unnamed/part_000: the target test server                                *)
(***************************************************************************)
\* the routes the handler answers itself (part_000:36-43)
FixedRoute(pathname) ==
    \/ pathname \in {<<"">>, <<"exit">>, <<"stream">>, <<"favicon.ico">>}
    \/ \E segment \in {"local", "delay", "status"} : startsWith(pathname, segment)

\* C27: a request to /status/{code}, of any method, is answered with the
\* status {code} when the last path segment is a number, and with 200 when
\* it is not.
C27_StatusOfLastSegment ==
    request # NoRequest /\ startsWith(request.pathname, "status") =>
        LET code == pop(request.pathname)
        IN IF isNumeral(code)
           THEN response.status = parseInt(Characters(code))
           ELSE response.status = 200

\* C28: a request whose path is none of the fixed routes and whose first
\* segment has no dot is answered 200 with a body that contains "Not a proxy
\* request", and the handler has fetched nothing for it.
C28_NotAProxyRequest ==
    /\ request # NoRequest
    /\ ~FixedRoute(request.pathname)
    /\ "." \notin Range(Characters(request.pathname[1]))
    => /\ response.status = 200
       /\ "Not a proxy request" \in Range(response.body)
       /\ outbound = ""
\* POST /invalid is answered by the proxy pattern check
C28_Witness ==
    /\ request = [method |-> "POST", pathname |-> <<"invalid">>]
    /\ response.status = 200
    /\ "Not a proxy request" \in Range(response.body)
    /\ outbound = ""

(***************************************************************************)
(* index.ts: chunks that arrive while Bun.connect is in flight             *)
(***************************************************************************)
\* C29: at most one target socket is ever opened for a client connection, and
\* every target socket opened for it is the one in the targetSocket field of
\* the connection's metadata.
C29_OneTargetInMetadata ==
    \A c \in Conns :
        /\ Cardinality({t \in SocksOf(c) : Resolved(t)}) <= 1
        /\ \A t \in SocksOf(c) : Resolved(t) => metaTarget[c] = t

\* C30: a client connection whose first chunk is a well-formed CONNECT
\* request is never sent 400 Bad Request.
C30_No400AfterConnect ==
    \A c \in Conns :
        nData[c] > 0 /\ connectMatch(firstChunk[c]) => Count(clientOut[c], Status400) = 0

(***************************************************************************)
(* serve.ts: listeners and the servers map                                 *)
(***************************************************************************)
\* C31: every listener Bun.serve has created is the value the servers map
\* holds for its domain, and there are as many listeners as cached domains.
C31_ListenersAreCached ==
    /\ \A s \in 1..Len(listeners) : servers[listeners[s]] = s
    /\ Len(listeners) = Cardinality({d \in Domains : servers[d] # NoServer})

(***************************************************************************)
(* serve.ts: the key pair of the root CA loadRootCA returns                *)
(***************************************************************************)
\* C32: the private key of the root CA loadRootCA has returned belongs to
\* the public key in the root CA's certificate, whatever the two files held
\* when the process started.
C32_RootKeyMatchesCertificate ==
    loadPc = "ready" =>
        rootCA.certificate.subjectPublicKeyInfo = importKey(rootCA.privateKey)

(***************************************************************************)
(* certs: serial numbers                                                   *)
(***************************************************************************)
\* C33: two different certificates under one root CA (two domain
\* certificates, or a domain certificate and the root certificate) have
\* different serial numbers.
C33_SerialNumbersDistinct ==
    /\ \A i, j \in Issued :
          certOf(i) # certOf(j) => certOf(i).serialNumber # certOf(j).serialNumber
    /\ \A i \in Issued : certOf(i).serialNumber # rootCA.certificate.serialNumber

(***************************************************************************)
(* certs: the extensions of a leaf certificate                             *)
(***************************************************************************)
\* the subjectAltName extensions the CSR asks for in its extensionRequest attribute
RequestedSANs(csr) ==
    LET requests == {a \in 1..Len(csr.attributes) : csr.attributes[a].type = OidExtensionRequest}
    IN {e \in UNION {Range(csr.attributes[a].values[1]) : a \in requests} :
           e.extnID = OidSubjectAltName}

\* C34: the extensions of an issued leaf certificate are exactly two, a
\* critical basicConstraints with cA = false and a subjectAltName that is
\* not critical and has the value of the subjectAltName the CSR requests.
C34_LeafExtensions ==
    \A i \in Issued :
        /\ Len(certOf(i).extensions) = 2
        /\ Extension(OidBasicConstraints, TRUE, [cA |-> FALSE]) \in Range(certOf(i).extensions)
        /\ \E k \in 1..Len(certOf(i).extensions) :
              /\ certOf(i).extensions[k].extnID = OidSubjectAltName
              /\ ~certOf(i).extensions[k].critical
              /\ \E q \in RequestedSANs(csrOf(i)) :
                    certOf(i).extensions[k].extnValue = q.extnValue

(***************************************************************************)
(* certs: the key pair of each createCSR call                              *)
(***************************************************************************)
\* C35: every createCSR call makes a key pair of its own: it is not the key
\* pair of the root CA, no two calls have the same, and the private key PEM
\* handed on with an issued certificate is that of the call's own key.
C35_FreshKeyPerCSR ==
    /\ \A i \in 1..Len(csrs) :
          /\ \A ca \in HeldRootCAs :
                /\ csrs[i].result.privateKey # ca.privateKey
                /\ csrs[i].result.csr.subjectPublicKeyInfo # ca.certificate.subjectPublicKeyInfo
                /\ csrs[i].result.privateKeyPEM # ca.privateKeyPEM
          /\ \A j \in 1..Len(csrs) :
                i # j => /\ csrs[i].result.privateKey # csrs[j].result.privateKey
                         /\ csrs[i].result.privateKeyPEM # csrs[j].result.privateKeyPEM
    /\ \A i \in Issued :
          /\ certs[i].result.privateKeyPEM = toPEM(exportKey(csrs[certs[i].csr].result.privateKey), "PRIVATE KEY")
          /\ certOf(i).subjectPublicKeyInfo # rootCA.certificate.subjectPublicKeyInfo
\* two endpoint creations of one domain and a certificate for each, under a
\* root CA read from the files
C35_Witness ==
    /\ Loaded
    /\ Len(csrs) = 2 /\ csrs[1].domain = csrs[2].domain
    /\ \E i, j \in Issued : certs[i].csr = 1 /\ certs[j].csr = 2

(***************************************************************************)
(* index.ts: isolation of the connections                                  *)
(***************************************************************************)
\* everything the proxy holds for client connection c: its socket, its
\* metadata, what was written to it, and its target sockets with what was
\* written to them
ConnState(c) ==
    <<cli[c], socketMap[c], metaTarget[c], clientOut[c], nData[c], firstChunk[c], lastChunk[c],
      {<<t, tgt[t], tgtDest[t], tgtIn[t], tgtSent[t]>> : t \in SocksOf(c)}>>
\* connection c awaits a Bun.connect
Waiting(c) == \E t \in SocksOf(c) : tgt[t] = "connecting"

\* C36: a step changes what the proxy holds for at most one connection, and
\* while a connection awaits its connect the events of every other
\* connection can be handled: its open, its chunks, its close and error.
C36_ConnectionsIsolated ==
    /\ [][\E c \in Conns : \A o \in Conns \ {c} : ConnState(o)' = ConnState(o)]_vars
    /\ [](\A c \in Conns : \A o \in Conns \ {c} :
             Waiting(c) =>
                /\ cli[o] = "none" => ENABLED open(o)
                /\ cli[o] = "open" => ENABLED close(o) /\ ENABLED error(o)
                /\ (cli[o] = "open" /\ nData[o] < MaxChunks /\ \E t \in Socks : tgt[t] = "none")
                      => \A chunk \in Chunks : ENABLED data(o, chunk))
\* while the connect of connection 1 is still in flight, connection 2, which
\* connected later, has its tunnel and has sent a chunk through it
C36_Witness ==
    /\ tgtConn = <<1, 2>>
    /\ tgt = <<"connecting", "open">>
    /\ Count(clientOut[2], Status200) = 1
    /\ tgtIn[2] # << >>
    /\ clientOut[1] = << >>

(***************************************************************************)
(* index.ts: the destination of a target socket                            *)
(***************************************************************************)
\* C37: every target socket Bun.connect was asked for goes to the host and
\* the decimal port of the CONNECT request line of its connection, the
\* connection's first chunk.
C37_DestinationOfConnectLine ==
    \A t \in Socks :
        tgt[t] # "none" =>
            tgtDest[t] = <<firstChunk[tgtConn[t]].host, parseInt(firstChunk[tgtConn[t]].port)>>

(***************************************************************************)
(* serve.ts: a request without Host header                                 *)
(***************************************************************************)
\* C38: a request without Host header is answered 400 in the step that
\* handles it, and that step leaves the servers map, the listeners and the
\* numbers of createCSR and signCSRWithFullChain calls as they are; the
\* request has no domain and no server, and is done.
C38_NoHostIs400 ==
    /\ [](\A r \in Requests :
             reqNoHost[r] =>
                /\ reqPc[r] = "done" /\ reqResp[r] = 400
                /\ reqDomain[r] = "" /\ reqServer[r] = NoServer)
    /\ [][\A r \in Requests :
             reqNoHost'[r] /\ reqPc[r] = "new" /\ reqPc'[r] # "new" =>
                /\ servers' = servers /\ listeners' = listeners
                /\ csrCalls' = csrCalls /\ signCalls' = signCalls]_vars
\* a request without Host header was answered 400 by a proxy that has an
\* endpoint for one domain and a creation in flight for the other
C38_Witness ==
    \E r, q \in Requests :
        /\ reqNoHost[r] /\ reqResp[r] = 400
        /\ reqPc[q] = "sign"
        /\ \E d \in Domains : servers[d] # NoServer /\ d # reqDomain[q]
====
